---- MODULE Spec2Model ----
(***************************************************************************)
(* Model of the message-handling and session-concurrency core of the       *)
(* XMPP bot: SmartXMPPBot (src/src/bot.py), TypingEffectMixin                *)
(* (src/src/mixins.py) and LLMService (src/src/services/llm_service.py).     *)
(*                                                                         *)
(* Scheduling follows asyncio: one event loop with a FIFO queue `ready` of   *)
(* task steps.  A step runs a coroutine from its resumption up to its next   *)
(* real suspension (network I/O, backend call, asyncio.sleep, await task).   *)
(* Completions of I/O and timers append the waiting task to `ready`.         *)
(***************************************************************************)
EXTENDS Integers, Sequences, FiniteSets, TLC

\* ---------------------------------------------------------------- bounds
NumHandlers == 2        \* inbound message events handled (one muc_message task each)
NumSlots == 3           \* muc_message tasks in SpecBusy (the tables' size)
MaxWords == 2           \* words in a generated reply
TickStep == 30          \* seconds the clock advances per Tick
MaxTime == 30           \* the clock stops advancing here
NumDisc == 2            \* concurrent invocations of handle_disconnect
SleepStep == 4          \* seconds by which the sleepers' timers advance together
MaxAppends == 12        \* appends to the history in SpecHistory
MaxClock == 31          \* clock readings 0..MaxClock, in seconds, in SpecGate
MaxUnits == 2           \* ciphertext units of one encrypted message
MaxWordLen == 240       \* characters in a word, in SpecDelay
MaxOut == 5             \* characters in a backend output, in SpecParse

\* ------------------------------------------------------ program constants
MAX_HISTORY_LENGTH == 10
MAX_RECONNECT_ATTEMPTS == 10
MIN_RESPONSE_INTERVAL_SECONDS == 30
MAX_WAIT_SECONDS == 60
IS_DEBUG == FALSE
\* times of the typing effect, in microseconds
SPEED == 20000
MIN_DELAY == 250000
MAX_DELAY == 2000000

Handlers == 1..NumHandlers
Slots == 1..NumSlots
DSlots == 1..NumDisc
NoTask == 0
Room == "room"
Keys == {Room}
Nick == "B"
User == "u"

H(h) == [k |-> "h", id |-> h]
T(t) == [k |-> "t", id |-> t]

\* no backend output has been parsed
NoOutput == [pc |-> "idle"]

\* no delay has been computed
NoDelay == [pc |-> "idle"]

\* no send_msg call has been made
NoCall == [pc |-> "idle"]

VARIABLES
    ready,               \* the event loop's FIFO queue of task steps
    hpc,                 \* muc_message task h: where its coroutine is suspended
    hraised,             \* muc_message task h re-raised (bot.py:293)
    hsend,               \* muc_message task h: what its send_msg(response) gave
    hstop,               \* muc_message task h: what its stop_typing returned
    hdecision,           \* muc_message task h: what analyze_conversation returned
    is_generating,       \* LLMService.is_generating
    lock_owner,          \* LLMService.generation_lock: holder or NoTask
    lock_waiters,        \* LLMService.generation_lock: queue of waiters
    active_sessions,     \* TypingEffectMixin.active_sessions: key -> task
    message_ids,         \* TypingEffectMixin.message_ids: key -> message id
    tasks,               \* the _typing_task tasks, one per muc_message task
    message_history,     \* SmartXMPPBot.message_history
    last_response_time,  \* SmartXMPPBot.last_response_time
    now,                 \* wall clock, seconds since construction
    typing_enabled,      \* settings.ENABLE_TYPING_EFFECT
    reconnect_attempts,  \* SmartXMPPBot.reconnect_attempts
    dpc,                 \* handle_disconnect invocation d: "idle" or "sleeping"
    dwait,               \* handle_disconnect invocation d: its wait_time
    dleft,               \* handle_disconnect invocation d: seconds left to sleep
    link,                \* transport: "online", "offline", "connecting"
    events,              \* session_end / disconnected events not yet dispatched
    wait_log,            \* wait_time of every retry, in order of invocation
    reconnects,          \* number of reconnect() requests made
    hist_log,            \* every turn appended to the history, in append order
    send,                \* the send_msg call in progress: position and locals
    outbox,              \* the messages handed to the transport, in order
    chat_state,          \* the chat state last sent to the room
    delay,               \* the delay computation of one reveal step
    parsed               \* the parsing of one relevance-decision output

hvars == <<hpc, hraised, hsend, hstop, hdecision>>
llmvars == <<is_generating, lock_owner, lock_waiters>>
typvars == <<active_sessions, message_ids, tasks>>
recvars == <<reconnect_attempts, dpc, dwait, dleft, link, events, wait_log,
            reconnects>>
sendvars == <<send, outbox>>
vars == <<ready, hpc, hraised, hsend, hstop, hdecision, is_generating, lock_owner, lock_waiters,
          active_sessions, message_ids, tasks, message_history,
          last_response_time, now, typing_enabled, reconnect_attempts, dpc,
          dwait, dleft, link, events, wait_log, reconnects, hist_log, send,
          outbox, chat_state, delay, parsed>>

\* ------------------------------------------------------------- text helpers
RECURSIVE Replace(_, _)
\* str.replace(nick, "") for a one-character nick
Replace(s, c) ==
    IF s = <<>> THEN <<>>
    ELSE IF Head(s) = c THEN Replace(Tail(s), c)
         ELSE <<Head(s)>> \o Replace(Tail(s), c)

RECURSIVE SplitFrom(_, _)
\* str.split(): the maximal runs of non-blank characters; cur is the run so far
SplitFrom(s, cur) ==
    IF s = <<>> THEN (IF cur = <<>> THEN <<>> ELSE <<cur>>)
    ELSE IF Head(s) = " "
         THEN (IF cur = <<>> THEN <<>> ELSE <<cur>>) \o SplitFrom(Tail(s), <<>>)
         ELSE SplitFrom(Tail(s), Append(cur, Head(s)))

Split(s) == SplitFrom(s, <<>>)

RECURSIVE RespText(_)
\* a reply of n words
RespText(n) ==
    IF n = 0 THEN <<>>
    ELSE IF n = 1 THEN <<"w">>
         ELSE RespText(n - 1) \o <<" ", "w">>

Responses == {RespText(n) : n \in 0..MaxWords}

RECURSIVE Joined(_, _)
\* displayed_text after the first i words: each word followed by a blank
Joined(words, i) ==
    IF i = 0 THEN <<>> ELSE Joined(words, i - 1) \o words[i] \o <<" ">>

RECURSIVE Strip(_)
\* str.strip() of a text that has no leading blank
Strip(s) ==
    IF s # <<>> /\ s[Len(s)] = " " THEN Strip(SubSeq(s, 1, Len(s) - 1)) ELSE s

\* the body of the edit after word number i (0-based), mixins.py:65-67
Display(words, i) ==
    Strip(Joined(words, i + 1)) \o <<IF i % 2 = 0 THEN "#" ELSE "|">>

InQueue(q, e) == \E i \in 1..Len(q) : q[i] = e

\* ----------------------------------------------------------------- history
\* the eviction takes the newest turn instead of the oldest
AddToHistoryDropsNewest(hist, body, sender) ==
    LET turn == [sender |-> sender, text |-> Replace(body, Nick), time |-> now]
        h1 == Append(hist, turn)
    IN  IF Len(h1) > MAX_HISTORY_LENGTH THEN SubSeq(h1, 1, Len(h1) - 1) ELSE h1

\* SmartXMPPBot._add_to_history
AddToHistory(hist, body, sender) ==
    LET turn == [sender |-> sender, text |-> Replace(body, Nick), time |-> now]
        h1 == Append(hist, turn)
    IN  IF Len(h1) > MAX_HISTORY_LENGTH THEN Tail(h1) ELSE h1

LogTurn(log, body, sender) ==
    Append(log, [sender |-> sender, text |-> Replace(body, Nick), time |-> now])

\* the boundary counts as too soon
TooSoonInclusive == (now - last_response_time) <= MIN_RESPONSE_INTERVAL_SECONDS

\* SmartXMPPBot._too_soon_to_respond
TooSoon == (now - last_response_time) < MIN_RESPONSE_INTERVAL_SECONDS

InBody == <<Nick, "m">>

\* ------------------------------------------------------------ typing tasks
\* A _typing_task task.  st: "none", "created" (not yet run), "sleeping" (in
\* asyncio.sleep), "done"; cancel: a CancelledError is pending; idx: words
\* revealed; text: the reply.  History of the task, for the properties:
\* cause: what cancelled it ("start" of a new session, "stop"); over: it was
\* started while a session was registered; cursor: its placeholder was sent;
\* edits: edits sent; final: the final edit ("no", "ok", "failed"); body: the
\* last body sent; torn: its finally block ran.
NoSession == [st |-> "none", cancel |-> FALSE, cause |-> "none", idx |-> 0,
              text |-> <<>>, edits |-> 0, final |-> "no", body |-> <<>>,
              torn |-> FALSE, over |-> FALSE, cursor |-> FALSE]

SendOutcomes == {"ok", "fail"}

\* the cancellation is lost
CancelTaskLost(ts, t) == ts

\* Task.cancel(): a finished task is left alone; otherwise a CancelledError is
\* thrown into the coroutine at its next step
CancelTask(ts, t) ==
    IF ts[t].st \in {"none", "done"} THEN ts
    ELSE [ts EXCEPT ![t].cancel = TRUE]

\* records who asked first for the cancellation of a task still running
Mark(ts, t, cause) ==
    IF tasks[t].st \in {"none", "done"} \/ tasks[t].cause # "none" THEN ts
    ELSE [ts EXCEPT ![t].cause = cause]

\* Task.cancel() of a task suspended in asyncio.sleep cancels the sleep's
\* future, which schedules the task's wakeup; a task already scheduled keeps
\* its place in the queue
CancelReady(rq, t) ==
    IF tasks[t].st = "sleeping" /\ ~InQueue(rq, T(t)) THEN Append(rq, T(t)) ELSE rq

\* TypingEffectMixin._cleanup_session, on the two maps
CleanupSessions(as, key) == [as EXCEPT ![key] = NoTask]
\* the message id is left behind
CleanupIdsKept(ids, key) == ids

CleanupIds(ids, key) == [ids EXCEPT ![key] = NoTask]

\* the session is cancelled and its entries are left in the maps
StopTypingKeepsEntry(h, rq) ==
    IF active_sessions[Room] # NoTask
    THEN /\ tasks' = Mark(CancelTask(tasks, active_sessions[Room]),
                         active_sessions[Room], "stop")
         /\ ready' = CancelReady(rq, active_sessions[Room])
         /\ hstop' = [hstop EXCEPT ![h] = "true"]
         /\ UNCHANGED <<active_sessions, message_ids>>
    ELSE /\ ready' = rq
         /\ hstop' = [hstop EXCEPT ![h] = "false"]
         /\ UNCHANGED typvars

\* TypingEffectMixin.stop_typing(self.room), called by muc_message task h with
\* the queue rq; the caller is handed the returned value
StopTyping(h, rq) ==
    IF active_sessions[Room] # NoTask
    THEN /\ tasks' = Mark(CancelTask(tasks, active_sessions[Room]),
                         active_sessions[Room], "stop")
         /\ ready' = CancelReady(rq, active_sessions[Room])
         /\ active_sessions' = CleanupSessions(active_sessions, Room)
         /\ message_ids' = CleanupIds(message_ids, Room)
         /\ hstop' = [hstop EXCEPT ![h] = "true"]
    ELSE /\ ready' = rq
         /\ hstop' = [hstop EXCEPT ![h] = "false"]
         /\ UNCHANGED typvars

\* the session cancelled by the start of a new one (mixins.py:24-25)
Superseded(as, key) == as[key]

\* TypingEffectMixin.send_message_with_typing up to `await task`, called by
\* muc_message task h with the queue rq
SendMessageWithTyping(h, text, rq) ==
    LET old == Superseded(active_sessions, Room)
        ts1 == IF old # NoTask THEN Mark(CancelTask(tasks, old), old, "start")
               ELSE tasks
        rq1 == IF old # NoTask THEN CancelReady(rq, old) ELSE rq
    IN  /\ tasks' = [ts1 EXCEPT ![h] = [NoSession EXCEPT !.st = "created",
                                                          !.text = text,
                                                          !.over = old # NoTask]]
        /\ ready' = Append(rq1, T(h))
        /\ active_sessions' = [active_sessions EXCEPT ![Room] = h]
        /\ UNCHANGED message_ids

\* the end of _typing_task: the finally block, then the task's completion
\* wakes the muc_message task awaiting it
TaskEnd(t, ts, rq, teardown) ==
    /\ tasks' = [ts EXCEPT ![t].st = "done", ![t].torn = teardown]
    /\ active_sessions' =
           IF teardown THEN CleanupSessions(active_sessions, Room)
           ELSE active_sessions
    /\ message_ids' =
           IF teardown THEN CleanupIds(message_ids, Room) ELSE message_ids
    /\ ready' = Append(rq, H(t))

\* whether the reveal loop runs iteration i (mixins.py:61-63)
LoopRuns(t, i, words) == i < Len(words) /\ active_sessions[Room] # NoTask

\* whether the final edit is issued (mixins.py:83)
FinalRuns(t) == active_sessions[Room] # NoTask

\* _typing_task from iteration i of the reveal loop to its next suspension;
\* ids is the message-id map on entry
TaskLoop(t, i, ids, rq) ==
    LET words == Split(tasks[t].text) IN
    IF LoopRuns(t, i, words)
    THEN /\ tasks' = [tasks EXCEPT ![t].st = "sleeping", ![t].idx = i + 1,
                                   ![t].edits = @ + 1, ![t].cursor = TRUE,
                                   ![t].body = Display(words, i)]
         /\ message_ids' = ids
         /\ ready' = rq
         /\ UNCHANGED active_sessions
    ELSE \E o \in SendOutcomes :
           LET ts1 == IF FinalRuns(t)
                      THEN [tasks EXCEPT ![t].final = IF o = "ok" THEN "ok" ELSE "failed",
                                         ![t].edits = @ + 1,
                                         ![t].body = tasks[t].text]
                      ELSE tasks
           IN  /\ tasks' = [ts1 EXCEPT ![t].st = "done", ![t].torn = TRUE,
                                       ![t].cursor = TRUE]
               /\ active_sessions' = CleanupSessions(active_sessions, Room)
               /\ message_ids' = CleanupIds(ids, Room)
               /\ ready' = Append(rq, H(t))

AtHead(e) == ready # <<>> /\ Head(ready) = e

\* first step of _typing_task
TaskStart(t) ==
    /\ AtHead(T(t))
    /\ tasks[t].st = "created"
    /\ IF tasks[t].cancel
       THEN \* cancelled before its first step: the coroutine body never runs
            TaskEnd(t, tasks, Tail(ready), FALSE)
       ELSE \E o \in SendOutcomes :
              IF o = "fail"
              THEN TaskEnd(t, tasks, Tail(ready), TRUE)
              ELSE TaskLoop(t, 0, [message_ids EXCEPT ![Room] = t], Tail(ready))
    /\ UNCHANGED <<hvars, llmvars, message_history, last_response_time, now,
                   typing_enabled, recvars, sendvars, hist_log,
                   chat_state, delay, parsed>>

\* _typing_task resumed from asyncio.sleep
TaskResume(t) ==
    /\ AtHead(T(t))
    /\ tasks[t].st = "sleeping"
    /\ IF tasks[t].cancel
       THEN TaskEnd(t, tasks, Tail(ready), TRUE)
       ELSE TaskLoop(t, tasks[t].idx, message_ids, Tail(ready))
    /\ UNCHANGED <<hvars, llmvars, message_history, last_response_time, now,
                   typing_enabled, recvars, sendvars, hist_log,
                   chat_state, delay, parsed>>

\* the timer of asyncio.sleep(delay) fires
TimerFire(t) ==
    /\ tasks[t].st = "sleeping"
    /\ ~tasks[t].cancel
    /\ ~InQueue(ready, T(t))
    /\ ready' = Append(ready, T(t))
    /\ UNCHANGED <<hvars, llmvars, typvars, message_history, last_response_time,
                   now, typing_enabled, recvars, sendvars, hist_log,
                   chat_state, delay, parsed>>

\* ------------------------------------------------------------- LLM service
\* outputs of the decision chain, as character sequences
DecisionOutputs == { <<"Y", "E", "S", "|", "r">>, <<"N", "O", "|", "r">> }

RECURSIVE IndexOf(_, _, _)
\* 1-based position of the first c in s at or after i, 0 when there is none
IndexOf(s, c, i) ==
    IF i > Len(s) THEN 0 ELSE IF s[i] = c THEN i ELSE IndexOf(s, c, i + 1)

RECURSIVE LStrip(_)
LStrip(s) == IF s # <<>> /\ Head(s) = " " THEN LStrip(Tail(s)) ELSE s

Trim(s) == Strip(LStrip(s))

\* str.upper() on the alphabet used
UpperChar(c) ==
    CASE c = "y" -> "Y" [] c = "e" -> "E" [] c = "s" -> "S"
      [] c = "n" -> "N" [] c = "o" -> "O" [] c = "d" -> "D" [] c = "a" -> "A"
      [] OTHER -> c

Upper(s) == [i \in 1..Len(s) |-> UpperChar(s[i])]

Affirmative == { <<"Y", "E", "S">>, <<"D", "A">>, <<"Y">> }

Contains(s, w) ==
    \E i \in 1..(Len(s) - Len(w) + 1) : SubSeq(s, i, i + Len(w) - 1) = w

\* the decision of analyze_conversation for a backend output
\* (llm_service.py:219-233)
ParseDecision(out) ==
    LET p == IndexOf(out, "|", 1) IN
    IF p > 0
    THEN Trim(Upper(SubSeq(out, 1, p - 1))) \in Affirmative
    ELSE \E w \in Affirmative : Contains(Upper(out), w)

\* the reasons analyze_conversation gives for an output without '|'
AutoYes == <<"auto: YES found">>
AutoNo == <<"auto: NO by default">>

\* the reason of analyze_conversation for a backend output: parts[1] of
\* split("|", 2), which ends at the second '|' (llm_service.py:221-233)
ParseReason(out) ==
    LET p == IndexOf(out, "|", 1)
        q == IF p > 0 THEN IndexOf(out, "|", p + 1) ELSE 0
    IN  IF p > 0
        THEN Trim(SubSeq(out, p + 1, IF q > 0 THEN q - 1 ELSE Len(out)))
        ELSE IF ParseDecision(out) THEN AutoYes ELSE AutoNo

\* exit of `async with self.generation_lock`: the first waiter is woken
ReleaseLock ==
    /\ lock_owner' = NoTask
    /\ lock_waiters' = IF lock_waiters = <<>> THEN <<>> ELSE Tail(lock_waiters)

ReleaseReady(rq) ==
    IF lock_waiters = <<>> THEN rq ELSE Append(rq, H(Head(lock_waiters)))

\* ---------------------------------------------------------- muc_message task
MsgKinds == {"skip", "plain", "enc"}

IOPcs == {"decrypt", "health", "analyze", "context", "detect", "gen",
          "gencode", "send", "admin"}

\* the coroutine moves to pc and nothing else of the bot changes
Goto(h, pc, rq) ==
    /\ hpc' = [hpc EXCEPT ![h] = pc]
    /\ ready' = rq
    /\ UNCHANGED <<hraised, hstop, typvars, message_history, hist_log,
                   chat_state>>

\* the exception is re-raised with the typing session left running
OuterExceptNoStop(h, rq) ==
    /\ ready' = rq
    /\ hpc' = [hpc EXCEPT ![h] = "done"]
    /\ hraised' = [hraised EXCEPT ![h] = TRUE]
    /\ chat_state' = "active"
    /\ UNCHANGED <<hstop, typvars, message_history, hist_log>>

\* bot.py:289-293: chat state "active", stop_typing, re-raise
OuterExcept(h, rq) ==
    /\ StopTyping(h, rq)
    /\ hpc' = [hpc EXCEPT ![h] = "done"]
    /\ hraised' = [hraised EXCEPT ![h] = TRUE]
    /\ chat_state' = "active"
    /\ UNCHANGED <<message_history, hist_log>>

\* bot.py:283-287: chat state "active", stop_typing, then the admin is
\* notified through an encrypted send_msg
InnerExcept(h, rq) ==
    /\ StopTyping(h, rq)
    /\ hpc' = [hpc EXCEPT ![h] = "admin"]
    /\ chat_state' = "active"
    /\ UNCHANGED <<hraised, message_history, hist_log>>

\* the gate is not consulted
BodyUngated(h, rq) ==
    /\ message_history' = AddToHistory(message_history, InBody, User)
    /\ hist_log' = LogTurn(hist_log, InBody, User)
    /\ hpc' = [hpc EXCEPT ![h] = "health"]
    /\ ready' = rq
    /\ UNCHANGED <<hraised, hstop, typvars, chat_state>>

\* bot.py:229-237: history append, rate gate, then the health probe
Body(h, rq) ==
    /\ message_history' = AddToHistory(message_history, InBody, User)
    /\ hist_log' = LogTurn(hist_log, InBody, User)
    /\ hpc' = [hpc EXCEPT ![h] = IF TooSoon THEN "done" ELSE "health"]
    /\ ready' = rq
    /\ UNCHANGED <<hraised, hstop, typvars, chat_state>>

\* bot.py:272-282: the reply is appended to the history and sent
AfterResponse(h, response, rq) ==
    IF response = <<>>
    THEN Goto(h, "done", rq)
    ELSE /\ message_history' = AddToHistory(message_history, response, Nick)
         /\ hist_log' = LogTurn(hist_log, response, Nick)
         /\ chat_state' = "active"
         /\ UNCHANGED <<hraised, hstop>>
         /\ IF typing_enabled
            THEN /\ SendMessageWithTyping(h, response, rq)
                 /\ hpc' = [hpc EXCEPT ![h] = "typing"]
            ELSE /\ hpc' = [hpc EXCEPT ![h] = "send"]
                 /\ ready' = rq
                 /\ UNCHANGED typvars

\* LLMService.generate_response up to the backend call
\* (llm_service.py:277-286); flag is is_generating at entry
GenerateResponseEntry(h, flag, rq) ==
    IF flag
    THEN /\ Goto(h, "done", rq)
         /\ UNCHANGED llmvars
    ELSE IF lock_owner = NoTask
         THEN /\ lock_owner' = h
              /\ is_generating' = TRUE
              /\ UNCHANGED lock_waiters
              /\ Goto(h, "gen", rq)
         ELSE /\ lock_waiters' = Append(lock_waiters, h)
              /\ UNCHANGED <<is_generating, lock_owner>>
              /\ Goto(h, "lockwait", rq)

\* a groupchat_message event: slixmpp schedules muc_message as a task
Arrive(h) ==
    /\ hpc[h] = "idle"
    /\ \A g \in Slots : g < h => hpc[g] # "idle"
    /\ hpc' = [hpc EXCEPT ![h] = "start"]
    /\ ready' = Append(ready, H(h))
    /\ UNCHANGED <<hraised, hsend, hstop, llmvars, typvars, message_history,
                   last_response_time, now, typing_enabled, recvars, sendvars, hist_log,
                   chat_state, delay, parsed,
                   hdecision>>

\* bot.py:205-227
HStart(h) ==
    /\ AtHead(H(h))
    /\ hpc[h] = "start"
    /\ \E kind \in MsgKinds :
         CASE kind = "skip" -> Goto(h, "done", Tail(ready))
           [] kind = "enc" -> Goto(h, "decrypt", Tail(ready))
           [] OTHER -> Body(h, Tail(ready))
    /\ UNCHANGED <<hsend, llmvars, last_response_time, now, typing_enabled,
                   recvars, sendvars, delay, parsed,
                   hdecision>>

\* bot.py:217-227: decrypt_message returned or raised
HDecrypt(h) ==
    /\ AtHead(H(h))
    /\ hpc[h] = "decrypt"
    /\ \E o \in {"body", "empty", "raise"} :
         CASE o = "raise" -> OuterExcept(h, Tail(ready))
           [] o = "empty" -> Goto(h, "done", Tail(ready))
           [] OTHER -> Body(h, Tail(ready))
    /\ UNCHANGED <<hsend, llmvars, last_response_time, now, typing_enabled,
                   recvars, sendvars, delay, parsed,
                   hdecision>>

\* bot.py:237-241 and llm_service.py:211-217
HHealth(h) ==
    /\ AtHead(H(h))
    /\ hpc[h] = "health"
    /\ \E healthy \in BOOLEAN :
         IF healthy /\ ~is_generating
         THEN /\ is_generating' = TRUE
              /\ Goto(h, "analyze", Tail(ready))
              /\ UNCHANGED hdecision
         ELSE /\ UNCHANGED is_generating
              /\ Goto(h, "done", Tail(ready))
              /\ hdecision' = [hdecision EXCEPT
                                 ![h] = IF healthy THEN "busy" ELSE @]
    /\ UNCHANGED <<hsend, lock_owner, lock_waiters, last_response_time, now,
                   typing_enabled, recvars,
                   sendvars, delay, parsed>>

\* llm_service.py:217-236 and bot.py:241-254
HAnalyze(h) ==
    /\ AtHead(H(h))
    /\ hpc[h] = "analyze"
    /\ \/ \* the backend call raised: is_generating is left set
          /\ OuterExcept(h, Tail(ready))
          /\ UNCHANGED <<is_generating, hdecision>>
       \/ \E out \in DecisionOutputs :
            /\ is_generating' = FALSE
            /\ hdecision' = [hdecision EXCEPT
                               ![h] = IF ParseDecision(out) THEN "yes" ELSE "no"]
            /\ IF ParseDecision(out)
               THEN \* bot.py:253: chat state "composing", then analyze_context
                    /\ hpc' = [hpc EXCEPT ![h] = "context"]
                    /\ ready' = Tail(ready)
                    /\ chat_state' = "composing"
                    /\ UNCHANGED <<hraised, hstop, typvars, message_history,
                                   hist_log>>
               ELSE Goto(h, "done", Tail(ready))
    /\ UNCHANGED <<hsend, lock_owner, lock_waiters, last_response_time, now,
                   typing_enabled, recvars,
                   sendvars, delay, parsed>>

\* analyze_context returns and generation is entered without detector_code
HContextSkipsTopic(h) ==
    /\ AtHead(H(h))
    /\ hpc[h] = "context"
    /\ \/ /\ InnerExcept(h, Tail(ready))
          /\ UNCHANGED llmvars
       \/ GenerateResponseEntry(h, is_generating, Tail(ready))
    /\ UNCHANGED <<hsend, last_response_time, now, typing_enabled, recvars,
                   sendvars, delay, parsed,
                   hdecision>>

\* llm_service.py:244-255 and bot.py:254-261
HContext(h) ==
    /\ AtHead(H(h))
    /\ hpc[h] = "context"
    /\ \/ /\ InnerExcept(h, Tail(ready))
          /\ UNCHANGED llmvars
       \/ IF is_generating
          THEN \* detector_code returns None, then generate_response is tried
               GenerateResponseEntry(h, is_generating, Tail(ready))
          ELSE /\ Goto(h, "detect", Tail(ready))
               /\ UNCHANGED llmvars
    /\ UNCHANGED <<hsend, last_response_time, now, typing_enabled, recvars,
                   sendvars, delay, parsed,
                   hdecision>>

\* detector_code clears is_generating when its backend call returns
HDetectClearsFlag(h) ==
    /\ AtHead(H(h))
    /\ hpc[h] = "detect"
    /\ \/ /\ InnerExcept(h, Tail(ready))
          /\ UNCHANGED llmvars
       \/ /\ Goto(h, "gencode", Tail(ready))
          /\ is_generating' = FALSE
          /\ UNCHANGED <<lock_owner, lock_waiters>>
       \/ GenerateResponseEntry(h, is_generating, Tail(ready))
    /\ UNCHANGED <<hsend, last_response_time, now, typing_enabled, recvars,
                   sendvars, delay, parsed,
                   hdecision>>

\* llm_service.py:258-264 and bot.py:261-271
HDetect(h) ==
    /\ AtHead(H(h))
    /\ hpc[h] = "detect"
    /\ \/ /\ InnerExcept(h, Tail(ready))
          /\ UNCHANGED llmvars
       \/ \* is_programming: generate_code_response takes no gate
          /\ Goto(h, "gencode", Tail(ready))
          /\ UNCHANGED llmvars
       \/ GenerateResponseEntry(h, is_generating, Tail(ready))
    /\ UNCHANGED <<hsend, last_response_time, now, typing_enabled, recvars,
                   sendvars, delay, parsed,
                   hdecision>>

\* llm_service.py:271-272 and bot.py:272-287
HGenCode(h) ==
    /\ AtHead(H(h))
    /\ hpc[h] = "gencode"
    /\ \/ InnerExcept(h, Tail(ready))
       \/ \E r \in Responses : AfterResponse(h, r, Tail(ready))
    /\ UNCHANGED <<hsend, llmvars, last_response_time, now, typing_enabled,
                   recvars, sendvars, delay, parsed,
                   hdecision>>

\* llm_service.py:281-292 and bot.py:272-287
HGen(h) ==
    /\ AtHead(H(h))
    /\ hpc[h] \in {"gen", "lockwait"}
    /\ IF hpc[h] = "lockwait"
       THEN \* woken by the release of the lock: takes it (llm_service.py:281-284)
            /\ lock_owner' = h
            /\ is_generating' = TRUE
            /\ UNCHANGED lock_waiters
            /\ Goto(h, "gen", Tail(ready))
       ELSE /\ is_generating' = FALSE
            /\ ReleaseLock
            /\ \/ InnerExcept(h, ReleaseReady(Tail(ready)))
               \/ \E r \in Responses : AfterResponse(h, r, ReleaseReady(Tail(ready)))
    /\ UNCHANGED <<hsend, last_response_time, now, typing_enabled, recvars,
                   sendvars, delay, parsed,
                   hdecision>>

\* mixins.py:28-31 and bot.py:280: the awaited typing task has ended
HTyping(h) ==
    /\ AtHead(H(h))
    /\ hpc[h] = "typing"
    /\ last_response_time' = now
    /\ Goto(h, "done", Tail(ready))
    /\ UNCHANGED <<hsend, llmvars, now, typing_enabled, recvars,
                   sendvars, delay, parsed,
                   hdecision>>

\* bot.py:279-280 with the typing effect off: the encrypted send_msg returned
\* an id, returned None, or its fallback send raised
HSend(h) ==
    /\ AtHead(H(h))
    /\ hpc[h] = "send"
    /\ \/ /\ InnerExcept(h, Tail(ready))
          /\ hsend' = [hsend EXCEPT ![h] = "raised"]
          /\ UNCHANGED last_response_time
       \/ \E id \in {"id", "null"} :
            /\ hsend' = [hsend EXCEPT ![h] = id]
            /\ last_response_time' = now
            /\ Goto(h, "done", Tail(ready))
    /\ UNCHANGED <<llmvars, now, typing_enabled, recvars,
                   sendvars, delay, parsed,
                   hdecision>>

\* bot.py:287: send_message_admin returned
HAdmin(h) ==
    /\ AtHead(H(h))
    /\ hpc[h] = "admin"
    /\ Goto(h, "done", Tail(ready))
    /\ UNCHANGED <<hsend, llmvars, last_response_time, now, typing_enabled,
                   recvars, sendvars, delay, parsed,
                   hdecision>>

\* the network or backend call a muc_message task awaits completes
IOComplete(h) ==
    /\ hpc[h] \in IOPcs
    /\ ~InQueue(ready, H(h))
    /\ ready' = Append(ready, H(h))
    /\ UNCHANGED <<hvars, llmvars, typvars, message_history, last_response_time,
                   now, typing_enabled, recvars, sendvars, hist_log,
                   chat_state, delay, parsed>>

Tick ==
    /\ now + TickStep <= MaxTime
    /\ now' = now + TickStep
    /\ UNCHANGED <<ready, hvars, llmvars, typvars, message_history,
                   last_response_time, typing_enabled, recvars, sendvars, hist_log,
                   chat_state, delay, parsed>>


\* ------------------------------------------------------------ specification
InitState ==
    /\ ready = <<>>
    /\ hpc = [h \in Slots |-> "idle"]
    /\ hraised = [h \in Slots |-> FALSE]
    /\ hsend = [h \in Slots |-> "unsent"]
    /\ hstop = [h \in Slots |-> "none"]
    /\ hdecision = [h \in Slots |-> "none"]
    /\ is_generating = FALSE
    /\ lock_owner = NoTask
    /\ lock_waiters = <<>>
    /\ active_sessions = [k \in Keys |-> NoTask]
    /\ message_ids = [k \in Keys |-> NoTask]
    /\ tasks = [t \in Slots |-> NoSession]
    /\ message_history = <<>>
    /\ reconnect_attempts = 0
    /\ dpc = [d \in DSlots |-> "idle"]
    /\ dwait = [d \in DSlots |-> 0]
    /\ dleft = [d \in DSlots |-> 0]
    /\ link = "online"
    /\ events = <<>>
    /\ wait_log = <<>>
    /\ reconnects = 0
    /\ hist_log = <<>>
    /\ send = NoCall
    /\ outbox = <<>>
    /\ chat_state = "none"
    /\ delay = NoDelay
    /\ parsed = NoOutput

\* bot.py:46: last_response_time starts as the time of construction
InitBot ==
    /\ InitState
    /\ last_response_time = 0
    /\ now = 0

Init ==
    /\ InitBot
    /\ typing_enabled \in BOOLEAN

\* the steps of the event loop for the muc_message task and typing task h
Step(h) ==
    \/ Arrive(h)
    \/ IOComplete(h)
    \/ HStart(h)
    \/ HDecrypt(h)
    \/ HHealth(h)
    \/ HAnalyze(h)
    \/ HContext(h)
    \/ HDetect(h)
    \/ HGenCode(h)
    \/ HGen(h)
    \/ HTyping(h)
    \/ HSend(h)
    \/ HAdmin(h)
    \/ TaskStart(h)
    \/ TaskResume(h)
    \/ TimerFire(h)

Next ==
    \/ Tick
    \/ \E h \in Handlers : Step(h)

Spec == Init /\ [][Next]_vars

\* The same bot in a busy room: the typing effect is on, every inbound message
\* is a plain group message that finds the backend healthy and the gate free,
\* so that a muc_message task ends only after its typing session, after
\* notifying the admin, or by re-raising; a message arrives when the earlier
\* ones have reached the generation stage; replies have MaxWords words and
\* the transport delivers every message.
InitBusy ==
    /\ InitBot
    /\ typing_enabled = TRUE

Generating == {"gencode", "gen", "lockwait", "typing", "admin", "done"}

Busy ==
    \A h \in Slots :
      /\ hpc'[h] # "decrypt"
      /\ (hpc[h] # "done" /\ hpc'[h] = "done")
           => (hpc[h] \in {"typing", "admin"} \/ hraised'[h])
      /\ (hpc[h] = "idle" /\ hpc'[h] = "start")
           => \A g \in Slots : g < h => hpc[g] \in Generating
      /\ tasks'[h].text \in {<<>>, RespText(MaxWords)}
      /\ tasks'[h].final # "failed"
      /\ (tasks[h].st = "created" /\ tasks'[h].st = "done") => tasks[h].cancel

NextBusy == (Tick \/ \E h \in Slots : Step(h)) /\ Busy

SpecBusy == InitBusy /\ [][NextBusy]_vars

\* ------------------------------------------------- reconnection supervisor
botvars == <<ready, hvars, llmvars, typvars, message_history,
             last_response_time, now, typing_enabled, hist_log, sendvars,
             chat_state, delay, parsed>>

Min(a, b) == IF a < b THEN a ELSE b
Max(a, b) == IF a > b THEN a ELSE b

\* the wait is not capped
WaitTimeUncapped(attempts) == 2 ^ attempts

\* bot.py:86
WaitTime(attempts) == Min(2 ^ attempts, MAX_WAIT_SECONDS)

\* bot.py:84
MayRetry(attempts) == attempts < MAX_RECONNECT_ATTEMPTS

\* the connection is lost: an established session ends with session_end and
\* disconnected, a failed connection attempt with disconnected alone
LinkDown ==
    /\ link \in {"online", "connecting"}
    /\ events = <<>>
    /\ link' = "offline"
    /\ events' = IF link = "online" THEN <<"session_end", "disconnected">>
                 ELSE <<"disconnected">>
    /\ UNCHANGED <<reconnect_attempts, dpc, dwait, dleft, wait_log, reconnects,
                   botvars>>

\* SmartXMPPBot.handle_disconnect up to asyncio.sleep, for the next event
\* (both events are bound to it, bot.py:69-70)
HandleDisconnect(d) ==
    /\ events # <<>>
    /\ dpc[d] = "idle"
    /\ events' = Tail(events)
    /\ IF MayRetry(reconnect_attempts)
       THEN /\ reconnect_attempts' = reconnect_attempts + 1
            /\ dpc' = [dpc EXCEPT ![d] = "sleeping"]
            /\ dwait' = [dwait EXCEPT ![d] = WaitTime(reconnect_attempts + 1)]
            /\ dleft' = [dleft EXCEPT ![d] = WaitTime(reconnect_attempts + 1)]
            /\ wait_log' = Append(wait_log, WaitTime(reconnect_attempts + 1))
       ELSE UNCHANGED <<reconnect_attempts, dpc, dwait, dleft, wait_log>>
    /\ UNCHANGED <<link, reconnects, botvars>>

\* time passes for every sleeping invocation
Sleep ==
    /\ \E d \in DSlots : dpc[d] = "sleeping" /\ dleft[d] > 0
    /\ dleft' = [d \in DSlots |-> Max(0, dleft[d] - SleepStep)]
    /\ UNCHANGED <<reconnect_attempts, dpc, dwait, link, events, wait_log,
                   reconnects, botvars>>

\* whether asyncio.sleep(wait_time) has returned (bot.py:91)
Slept(d) == dleft[d] = 0

\* SmartXMPPBot.handle_disconnect after asyncio.sleep: self.reconnect()
Reconnect(d) ==
    /\ dpc[d] = "sleeping"
    /\ Slept(d)
    /\ dpc' = [dpc EXCEPT ![d] = "idle"]
    /\ reconnects' = reconnects + 1
    /\ link' = "connecting"
    /\ UNCHANGED <<reconnect_attempts, dwait, dleft, events, wait_log, botvars>>

\* the attempt counter after initialize: the handler does not touch it
AttemptsAfterStart(attempts) == attempts

\* SmartXMPPBot.initialize, on session_start (bot.py:72-79)
SessionStart ==
    /\ link = "connecting"
    /\ link' = "online"
    /\ reconnect_attempts' = AttemptsAfterStart(reconnect_attempts)
    /\ UNCHANGED <<dpc, dwait, dleft, events, wait_log, reconnects, botvars>>

InitReconnect ==
    /\ InitBot
    /\ typing_enabled = TRUE

NextReconnect ==
    \/ LinkDown
    \/ Sleep
    \/ SessionStart
    \/ \E d \in DSlots :
         \/ HandleDisconnect(d)
         \/ Reconnect(d)

SpecReconnect == InitReconnect /\ [][NextReconnect]_vars

\* ---------------------------------------------------------- history buffer
\* one call of _add_to_history: an inbound turn (bot.py:229) or the bot's own
\* reply (bot.py:273)
AppendTurn ==
    /\ Len(hist_log) < MaxAppends
    /\ \E turn \in {<<InBody, User>>, <<RespText(1), Nick>>} :
         /\ message_history' = AddToHistory(message_history, turn[1], turn[2])
         /\ hist_log' = LogTurn(hist_log, turn[1], turn[2])
    /\ UNCHANGED <<ready, hvars, llmvars, typvars, last_response_time, now,
                   typing_enabled, recvars,
                   sendvars,
                   chat_state, delay, parsed>>

NextHistory == AppendTurn

SpecHistory == InitReconnect /\ [][NextHistory]_vars

\* ------------------------------------------------------------------ send_msg
Admin == "admin"
\* the set of JIDs get_encrypt_for_muc returns, which replaces the local `to`
Recipients == "recipients"
MsgText == <<"x">>

\* the rosters get_roster(self.room) may return
Rosters == {<<>>, <<Nick>>, <<User, Nick>>}

RECURSIVE Others(_)
\* [nick for nick in room_users if nick != self.nick]
Others(roster) ==
    IF roster = <<>> THEN <<>>
    ELSE IF Head(roster) = Nick THEN Others(Tail(roster))
         ELSE <<Head(roster)>> \o Others(Tail(roster))

RECURSIVE Join(_)
\* ", ".join(names)
Join(names) ==
    IF names = <<>> THEN <<>>
    ELSE IF Len(names) = 1 THEN <<Head(names)>>
         ELSE <<Head(names), ", ">> \o Join(Tail(names))

\* bot.py:172-174: the body with the mention line put before it
Mentioned(roster, message) ==
    IF roster # <<>> THEN Join(Others(roster)) \o <<"\n">> \o message
    ELSE message

SendArgs ==
    [to : {"none", Room, Admin}, type : {"groupchat", "chat"},
     encrypt : BOOLEAN, mention : BOOLEAN, replace : {"none", "m1"}]

\* the message make_message builds, with the correction element if asked for
Stanza(to, body, type, replace, enc) ==
    [to |-> to, body |-> body, type |-> type, replace |-> replace, enc |-> enc]

\* bot.py:323-331: the except branch of _encrypt_and_send_message, which is
\* not itself guarded; o is what the transport does with the fallback message
Fallback(sd, box, o) ==
    IF o = "raise"
    THEN [send |-> [sd EXCEPT !.pc = "done", !.failed = TRUE,
                              !.result = "raised"],
          outbox |-> box]
    ELSE [send |-> [sd EXCEPT !.pc = "done", !.failed = TRUE, !.result = o],
          outbox |-> Append(box, Stanza(sd.to, sd.body, sd.args.type,
                                        sd.args.replace, FALSE))]

FallbackOutcomes == {"raise", "id", "null"}

\* bot.py:163-194 and 303-314: send_msg from its call to its first suspension
\* (encrypt_message) or to its end
SendMsg ==
    /\ send.pc = "idle"
    /\ \E args \in SendArgs, roster \in Rosters, lookup \in {"ok", "raise"} :
         LET to == IF args.to = "none" THEN Room ELSE args.to
             mentions == args.mention /\ args.type = "groupchat"
             body == IF mentions THEN Mentioned(roster, MsgText) ELSE MsgText
             sd == [pc |-> "encrypting", args |-> args, to |-> to,
                    body |-> body, failed |-> FALSE, result |-> "none"]
         IN  IF mentions /\ lookup = "raise"
             THEN \* get_roster raised (bot.py:169-171, outside any try)
                  /\ send' = [sd EXCEPT !.pc = "done", !.result = "raised"]
                  /\ UNCHANGED outbox
             ELSE IF ~args.encrypt
             THEN \* bot.py:184-192
                  \E o \in {"id", "null"} :
                    /\ send' = [sd EXCEPT !.pc = "done", !.result = o]
                    /\ outbox' = IF o = "id"
                                 THEN Append(outbox, Stanza(to, body, args.type,
                                                            args.replace, FALSE))
                                 ELSE outbox
             ELSE IF args.type = "groupchat"
             THEN \/ \* get_encrypt_for_muc raised (bot.py:313)
                     \E o \in FallbackOutcomes :
                       /\ send' = Fallback(sd, outbox, o).send
                       /\ outbox' = Fallback(sd, outbox, o).outbox
                  \/ /\ send' = [sd EXCEPT !.to = Recipients]
                     /\ UNCHANGED outbox
             ELSE /\ send' = sd
                  /\ UNCHANGED outbox
    /\ UNCHANGED <<ready, hvars, llmvars, typvars, message_history,
                   last_response_time, now, typing_enabled, hist_log, recvars,
                   chat_state, delay, parsed>>

RECURSIVE Units(_, _)
\* the first n ciphertext units of the message, as sent
Units(sd, n) ==
    IF n = 0 THEN <<>>
    ELSE Append(Units(sd, n - 1),
                Stanza(Recipients, sd.body, sd.args.type, sd.args.replace, TRUE))

\* bot.py:314-331: encrypt_message returned n units or raised; unit number f
\* fails to send (0: none does)
EncryptReturn ==
    /\ send.pc = "encrypting"
    /\ \/ \E o \in FallbackOutcomes :
            /\ send' = Fallback(send, outbox, o).send
            /\ outbox' = Fallback(send, outbox, o).outbox
       \/ \E n \in 0..MaxUnits, f \in 0..MaxUnits :
            /\ f <= n
            /\ IF f = 0
               THEN /\ send' = [send EXCEPT !.pc = "done", !.result = "id"]
                    /\ outbox' = outbox \o Units(send, n)
               ELSE \E o \in FallbackOutcomes :
                      LET box == outbox \o Units(send, f - 1) IN
                      /\ send' = Fallback(send, box, o).send
                      /\ outbox' = Fallback(send, box, o).outbox
    /\ UNCHANGED <<ready, hvars, llmvars, typvars, message_history,
                   last_response_time, now, typing_enabled, hist_log, recvars,
                   chat_state, delay, parsed>>

InitSend ==
    /\ InitBot
    /\ typing_enabled = TRUE

NextSend ==
    \/ SendMsg
    \/ EncryptReturn

SpecSend == InitSend /\ [][NextSend]_vars

\* ------------------------------------------------------------- typing delay
\* random.choice([0.85, 1.0, 1.15]), in hundredths
Variations == {85, 100, 115}

\* the last character of a word, as far as the delay depends on it
Endings == {".", "!", "?", ",", ";", ":", "a"}

\* mixins.py:74-78, in tenths; the empty word ends with nothing
PunctuationMultiplier(len, ending) ==
    IF len = 0 THEN 10
    ELSE IF ending \in {".", "!", "?"} THEN 17
    ELSE IF ending \in {",", ";", ":"} THEN 13
    ELSE 10

\* the upper limit is not applied
ClampLowerOnly(d) == Max(MIN_DELAY, d)

\* mixins.py:80
Clamp(d) == Max(MIN_DELAY, Min(d, MAX_DELAY))

\* mixins.py:71-80: the delay after a word of len characters, in microseconds
\* (every product below is a whole number of microseconds)
Delay(len, ending, variation) ==
    LET base_delay == (SPEED * len) \div 2
        varied == (base_delay * variation) \div 100
        scaled == (varied * PunctuationMultiplier(len, ending)) \div 10
    IN  Clamp(scaled)

\* one reveal step computes its delay
ComputeDelay ==
    /\ delay.pc = "idle"
    /\ \E len \in 0..MaxWordLen, ending \in Endings, variation \in Variations :
         delay' = [pc |-> "done", len |-> len, ending |-> ending,
                   variation |-> variation,
                   value |-> Delay(len, ending, variation)]
    /\ UNCHANGED <<ready, hvars, llmvars, typvars, message_history,
                   last_response_time, now, typing_enabled, hist_log, recvars,
                   sendvars, chat_state, parsed>>

NextDelay == ComputeDelay

SpecDelay == InitSend /\ [][NextDelay]_vars

\* ------------------------------------------------------- relevance parsing
\* the characters of the backend outputs: letters of the affirmative tokens
\* in both cases, the separator and the blank
Alphabet == {"Y", "e", "S", "D", "a", "|", " "}

Outputs == UNION {[1..n -> Alphabet] : n \in 0..MaxOut}

\* llm_service.py:219-233: analyze_conversation parses a backend output
ParseOutput ==
    /\ parsed.pc = "idle"
    /\ \E out \in Outputs :
         parsed' = [pc |-> "done", out |-> out,
                    decision |-> ParseDecision(out),
                    reason |-> ParseReason(out)]
    /\ UNCHANGED <<ready, hvars, llmvars, typvars, message_history,
                   last_response_time, now, typing_enabled, hist_log, recvars,
                   sendvars, chat_state, delay>>

NextParse == ParseOutput

SpecParse == InitSend /\ [][NextParse]_vars

\* ---------------------------------------------------------------- rate gate
\* the gate of muc_message at every pair of clock readings: the last response
\* was recorded at one reading and the message is handled at another (the
\* wall clock of datetime.now() may also have been set back in between)
InitGate ==
    /\ InitState
    /\ typing_enabled = TRUE
    /\ now \in 0..MaxClock
    /\ last_response_time \in 0..MaxClock

NextGate ==
    \E h \in Handlers :
      \/ Arrive(h)
      \/ HStart(h)

SpecGate == InitGate /\ [][NextGate]_vars

\* =================================================================== claims
Running(t) == tasks[t].st \in {"created", "sleeping"}

\* a backend call of the relevance-decision or generation stages that has been
\* issued and has not returned to its muc_message task
InFlight == {h \in Slots : hpc[h] \in {"analyze", "gen", "gencode"}
                           /\ ~InQueue(ready, H(h))}

\* C1: at most one relevance-decision or response-generation backend call
\* (analyze_conversation, generate_response, generate_code_response) is in
\* flight at any time.
C1_SingleFlight == Cardinality(InFlight) <= 1

\* C3: a typing session started over a live session, whose placeholder was
\* sent and which was itself never cancelled, ends only after issuing its
\* final edit with its full text.
C3_LastWriterWins ==
    \A t \in Slots :
      (tasks[t].st = "done" /\ tasks[t].over /\ tasks[t].cursor
         /\ tasks[t].cause = "none")
      => (tasks[t].final # "no" /\ tasks[t].body = tasks[t].text)

\* C4: once a typing session has been cancelled by the start of a second
\* session for the same recipient, it never issues its final edit.
C4_NoFinalAfterSupersede ==
    [][\A t \in Slots :
         tasks[t].cause = "start" => tasks'[t].final = "no"]_vars

C4_Witness ==
    \E t \in Slots :
      /\ tasks[t].cause = "start" /\ tasks[t].st = "done" /\ tasks[t].edits > 0
      /\ \E u \in Slots : u # t /\ tasks[u].over /\ tasks[u].st = "done"

Delivered(h) == tasks[h].final = "ok" \/ hsend[h] = "id"

\* C10: last_response_time is updated only after the reply was dispatched
\* successfully.
C10_RecordedOnlyAfterDispatch ==
    [][\A h \in Slots :
         (hpc[h] \in {"typing", "send"} /\ hpc'[h] = "done"
            /\ last_response_time' # last_response_time)
         => Delivered(h)']_vars

\* a typing session that is typing: started, not ended, not cancelled
Typing(t) == Running(t) /\ ~tasks[t].cancel

\* C2: at every moment there is at most one active typing session per
\* recipient key.
C2_OneSessionPerKey == Cardinality({t \in Slots : Typing(t)}) <= 1

\* ------------------------------------------------------ reconnection claims
RECURSIVE Backoff(_)
\* the waits 2, 4, 8, 16, 32, 60, 60, ... of the first n retries
Backoff(n) ==
    IF n = 0 THEN <<>>
    ELSE Append(Backoff(n - 1), IF n >= 6 THEN 60 ELSE 2 ^ n)

Sleeping == {d \in DSlots : dpc[d] = "sleeping"}

\* C6: the k-th retry waits 2, 4, 8, 16, 32, 60, 60, 60, 60, 60 seconds and
\* requests reconnection only when that wait is over; with attempts at 10 a
\* disconnect event starts no retry and leaves attempts at 10.
C6_Backoff ==
    /\ [](/\ reconnect_attempts = Len(wait_log)
          /\ reconnect_attempts <= 10
          /\ wait_log = Backoff(reconnect_attempts))
    /\ [][/\ reconnects' # reconnects =>
               \E d \in DSlots : dpc[d] = "sleeping" /\ dpc'[d] = "idle"
                                 /\ dleft[d] = 0
          /\ \A d \in DSlots :
               (dpc[d] = "idle" /\ dpc'[d] = "sleeping") =>
                  /\ dwait'[d] = Backoff(reconnect_attempts')[reconnect_attempts']
                  /\ dleft'[d] = dwait'[d]
          /\ reconnect_attempts = 10 =>
               /\ reconnect_attempts' = 10
               /\ Sleeping' \subseteq Sleeping]_vars

\* all ten retries were made and a further event was dropped
C6_Witness ==
    /\ reconnect_attempts = 10
    /\ Len(wait_log) = 10
    /\ reconnects = 10
    /\ link = "offline"
    /\ events = <<>>
    /\ Sleeping = {}

\* C7: after a successful session start the reconnect attempt counter is 0.
C7_ResetOnSessionStart ==
    [][(link = "connecting" /\ link' = "online") => reconnect_attempts' = 0]_vars

\* C8: at most one reconnect attempt sequence (wait, then reconnect) is
\* running at any time.
C8_SingleReconnectLoop == Cardinality(Sleeping) <= 1

\* ----------------------------------------------------------- history claims
Last(s, n) == SubSeq(s, Len(s) - n + 1, Len(s))

\* C9: after N appends the history holds min(N, 10) turns, namely the most
\* recent min(N, 10) appended turns in append order.
C9_HistoryIsLastTen ==
    /\ Len(message_history) = Min(Len(hist_log), 10)
    /\ message_history = Last(hist_log, Min(Len(hist_log), 10))

C9_Witness ==
    /\ Len(hist_log) = 12
    /\ Len(message_history) = 10
    /\ message_history[1].sender # message_history[10].sender

\* --------------------------------------------------------- rate-gate claims
\* C11: the gate reports too-soon exactly when the seconds elapsed since the
\* last recorded response are strictly fewer than MIN_RESPONSE_INTERVAL_SECONDS;
\* at an elapsed time equal to the interval it does not.
C11_TooSoonIffStrictlyLess ==
    [][\A h \in Handlers :
         (hpc[h] = "start" /\ hpc'[h] # "start" /\ hist_log' # hist_log) =>
            /\ (hpc'[h] = "done") <=>
                 (now - last_response_time < MIN_RESPONSE_INTERVAL_SECONDS)
            /\ (now - last_response_time = MIN_RESPONSE_INTERVAL_SECONDS)
                 => hpc'[h] = "health"]_vars

\* a message passed the gate exactly at the boundary
C11_Witness ==
    \E h \in Handlers :
      /\ hpc[h] = "health"
      /\ Len(hist_log) = 1
      /\ now - last_response_time = MIN_RESPONSE_INTERVAL_SECONDS

\* -------------------------------------------------------------- send claims
\* the unencrypted messages handed to the transport
Unencrypted == SelectSeq(outbox, LAMBDA m : ~m.enc)

\* C12: whenever the encryption step of an encrypted send failed (and the
\* fallback send did not itself raise), exactly one unencrypted message was
\* sent, with the same body, to the original recipient of the call (the room
\* when none was given) and with the same correction reference.
C12_FallbackSameMessage ==
    (send.pc = "done" /\ send.failed /\ send.result # "raised") =>
       /\ Len(Unencrypted) = 1
       /\ Unencrypted[1].body = send.body
       /\ Unencrypted[1].to = (IF send.args.to = "none" THEN Room ELSE send.args.to)
       /\ Unencrypted[1].replace = send.args.replace

\* C13: send_msg never raises to its caller.
C13_SendNeverRaises == send.pc = "done" => send.result # "raised"

\* --------------------------------------------------------- pipeline claims
\* C14: the relevance-decision stage never raises: no muc_message task ends
\* by re-raising an exception that came out of analyze_conversation.
C14_AnalyzeNeverRaises ==
    [][\A h \in Handlers : hpc[h] = "analyze" => ~hraised'[h]]_vars

\* C15: a call of analyze_conversation or generate_response made while a
\* relevance-decision or generation backend call of another task is in flight
\* returns at once: it neither invokes the backend nor waits for the lock.
C15_BusyWhileInFlight ==
    [][\A h \in Handlers :
         (hpc[h] \in {"health", "context", "detect"} /\ InFlight \ {h} # {})
         => hpc'[h] \notin {"analyze", "gen", "lockwait"}]_vars

\* C16: stop_typing returns true exactly when the recipient had a session in
\* the session map; when it has returned the recipient has no entry in the
\* session map or the message-id map and the session is cancelled; a stopped
\* session sends no further edit, in particular no final edit.
C16_StopTyping ==
    [][/\ \A h \in Slots :
            hstop'[h] # hstop[h] =>
              /\ (hstop'[h] = "true") <=> (active_sessions[Room] # NoTask)
              /\ active_sessions'[Room] = NoTask
              /\ message_ids'[Room] = NoTask
              /\ \A t \in Slots :
                    active_sessions[Room] = t =>
                       (tasks'[t].cancel \/ tasks[t].st = "done")
       /\ \A t \in Slots :
            tasks[t].cause = "stop" =>
              /\ tasks'[t].edits = tasks[t].edits
              /\ tasks'[t].body = tasks[t].body
              /\ tasks'[t].final = "no"]_vars

\* a session was stopped in the middle of its reveal and has ended
C16_Witness ==
    \E h \in Slots, t \in Slots :
      /\ hstop[h] = "true"
      /\ tasks[t].cause = "stop"
      /\ tasks[t].st = "done"
      /\ tasks[t].edits > 0
      /\ tasks[t].idx < Len(Split(tasks[t].text))

\* C17: an inbound message for which the gate reports too-soon is appended to
\* the history and its handling ends there: no health probe, no backend call
\* of any stage, no typing session and no reply, then or later.
C17_GateBeforePipeline ==
    [][\A h \in Slots :
         /\ (/\ hpc[h] \in {"start", "decrypt"}
             /\ hpc'[h] # hpc[h]
             /\ hist_log' # hist_log
             /\ now - last_response_time < MIN_RESPONSE_INTERVAL_SECONDS)
            => /\ hpc'[h] = "done"
               /\ Len(hist_log') = Len(hist_log) + 1
               /\ hist_log'[Len(hist_log')].sender = User
               /\ message_history'[Len(message_history')] = hist_log'[Len(hist_log')]
               /\ UNCHANGED <<llmvars, typvars, hsend, hraised, outbox,
                              last_response_time>>
         /\ hpc[h] = "done" => hpc'[h] = "done"]_vars

\* two messages were handled within the interval after construction: both
\* are in the history and neither went any further
C17_Witness ==
    /\ now = 0
    /\ Len(hist_log) = 2
    /\ \A h \in Handlers :
         hpc[h] = "done" /\ tasks[h].st = "none" /\ hsend[h] = "unsent"

\* the bot's own turns appended to the history so far
BotTurns == SelectSeq(hist_log, LAMBDA e : e.sender = Nick)

\* something of the reply of muc_message task h has been handed to the
\* transport: the placeholder of its typing session, or its send_msg message
SendingBegun(h) == tasks[h].cursor \/ hsend[h] = "id"

\* C18: the history never holds a turn of the bot whose sending has not taken
\* place: every reply in the history belongs to a task whose sending has begun.
C18_HistoryAfterSend ==
    Len(BotTurns) <= Cardinality({h \in Slots : SendingBegun(h)})

\* the stages of the generation/send block of muc_message (bot.py:252-287)
InnerBlock == {"context", "detect", "gencode", "gen", "lockwait", "typing",
               "send", "admin"}

\* C19: in the step in which muc_message re-raises, chat state "active" has
\* been sent and stop_typing has been called, so that no typing session is
\* registered for the room and the session that was is cancelled; a task
\* inside its generation/send block never re-raises.
C19_StopBeforeReraise ==
    [][\A h \in Slots :
         /\ (hraised'[h] /\ ~hraised[h]) =>
              /\ chat_state' = "active"
              /\ hstop[h] = "none" /\ hstop'[h] # "none"
              /\ active_sessions'[Room] = NoTask
              /\ message_ids'[Room] = NoTask
              /\ \A t \in Slots :
                    active_sessions[Room] = t =>
                       (tasks'[t].cancel \/ tasks[t].st = "done")
         /\ hpc[h] \in InnerBlock => ~hraised'[h]]_vars

\* a task re-raised while another task's typing session was registered
C19_Witness ==
    \E h \in Slots, t \in Slots :
      /\ hraised[h]
      /\ hstop[h] = "true"
      /\ tasks[t].cause = "stop"
      /\ chat_state = "active"

\* the muc_message tasks whose handling of a message has begun and not ended
Handling == {h \in Slots : hpc[h] \notin {"idle", "start", "done"}}

\* C20: inbound messages are handled one at a time: while a message is being
\* handled, the handling of no other message has begun.
C20_OneAtATime == Cardinality(Handling) <= 1

\* ----------------------------------------------------------- typing claims
\* C21: a typing session whose placeholder was sent and which was never
\* cancelled ends having issued its final edit, whose body is the full text,
\* as the last message it sent.
C21_EndsWithFinalEdit ==
    \A t \in Slots :
      (tasks[t].st = "done" /\ tasks[t].cursor /\ ~tasks[t].cancel)
      => (tasks[t].final # "no" /\ tasks[t].body = tasks[t].text)

\* C22: the delay of every reveal step lies between 0.25 and 2.0 seconds
\* inclusive, for every word length, variation and word ending.
C22_DelayInRange ==
    delay.pc = "done" => (delay.value >= 250000 /\ delay.value <= 2000000)

\* a long word is held to 2.0 s even with the smallest factors, and the
\* unclamped value would have been larger
C22_Witness ==
    /\ delay.pc = "done"
    /\ delay.len >= 236
    /\ delay.variation = 85
    /\ delay.ending = "a"
    /\ delay.value = 2000000

\* ----------------------------------------------------------- parsing claims
\* C23: for an output with '|' the decision is positive exactly when the
\* trimmed, uppercased text before the first '|' is YES, DA or Y, and the
\* reason is the trimmed text after that first '|'; for an output without
\* '|' the decision is positive exactly when the uppercased output contains
\* one of the tokens, and the reason is the default one.
C23_RelevanceParsing ==
    parsed.pc = "done" =>
      LET out == parsed.out
          p == IndexOf(out, "|", 1)
          tokens == {<<"Y", "E", "S">>, <<"D", "A">>, <<"Y">>}
      IN  IF p > 0
          THEN /\ parsed.decision <=> (Trim(Upper(SubSeq(out, 1, p - 1))) \in tokens)
               /\ parsed.reason = Trim(SubSeq(out, p + 1, Len(out)))
          ELSE /\ parsed.decision <=> (\E w \in tokens : Contains(Upper(out), w))
               /\ parsed.reason = (IF parsed.decision THEN AutoYes ELSE AutoNo)

\* C24: a handler enters a response-generation call (generate_response, also
\* queued on its lock, or generate_code_response) only from the
\* topic-classification stage, enters that stage only from the context-summary
\* stage, and enters the context-summary stage only in the step in which
\* analyze_conversation returned a positive decision for its message; a
\* negative or busy relevance result ends the handling with no backend call.
Generation == {"gen", "gencode", "lockwait"}

C24_StageOrder ==
    [][\A h \in Slots :
         /\ (hpc'[h] \in Generation /\ hpc[h] \notin Generation)
              => (hpc[h] = "detect" /\ hdecision[h] = "yes")
         /\ (hpc'[h] = "detect" /\ hpc[h] # "detect")
              => (hpc[h] = "context" /\ hdecision[h] = "yes")
         /\ (hpc'[h] = "context" /\ hpc[h] # "context")
              => (hpc[h] = "analyze" /\ hdecision'[h] = "yes")
         /\ hdecision'[h] \in {"no", "busy"} => hpc'[h] = "done"]_vars

C24_Witness ==
    \E h, g \in Slots :
       /\ hpc[h] \in {"gen", "gencode"} /\ hdecision[h] = "yes"
       /\ hpc[g] = "done" /\ hdecision[g] \in {"no", "busy"}

\* C25: analyze_context and detector_code never change is_generating and
\* never take or queue on generation_lock: a step that ends the
\* context-summary call, or that ends the topic-classification call without
\* entering generate_response, leaves all three unchanged, and detector_code
\* entered while the flag is set makes no backend call.  A context or topic
\* call can therefore be in flight together with a relevance or generation
\* call of another handler.
C25_StagesLeaveGateAlone ==
    [][\A h \in Slots :
         /\ (hpc[h] = "context" /\ hpc'[h] # "context")
              => /\ is_generating' = is_generating
                 /\ lock_owner' = lock_owner
                 /\ lock_waiters' = lock_waiters
                 /\ is_generating => hpc'[h] # "detect"
         /\ (hpc[h] = "detect" /\ hpc'[h] \notin {"detect", "gen", "lockwait"})
              => /\ is_generating' = is_generating
                 /\ lock_owner' = lock_owner
                 /\ lock_waiters' = lock_waiters
         /\ hpc[h] \in {"context", "detect"} => lock_owner # h]_vars

C25_Witness ==
    \E h, g \in Slots :
       /\ h # g
       /\ hpc[h] \in {"context", "detect"}
       /\ hpc[g] \in {"analyze", "gen"}
       /\ is_generating

\* C26: is_generating is true only while an analyze_conversation or
\* generate_response backend call is in flight; once every such call has
\* ended, by returning or by raising, the flag is false again.
C26_FlagOnlyWhileInFlight ==
    is_generating => \E h \in Slots : hpc[h] \in {"analyze", "gen"}

\* the muc_message tasks whose reply reached the room
Dispatched == {h \in Slots : Delivered(h)}

\* C27: any two replies the bot dispatches to the room are at least
\* MIN_RESPONSE_INTERVAL_SECONDS apart.  A reply is handed to the sending code
\* in the step that logs it as a turn of the bot (bot.py:273-279), so when
\* every logged reply was dispatched the times of the turns are the times of
\* the dispatches.
C27_RepliesSpacedApart ==
    Cardinality(Dispatched) = Len(BotTurns)
    => \A i, j \in 1..Len(BotTurns) :
         i < j => BotTurns[j].time - BotTurns[i].time
                    >= MIN_RESPONSE_INTERVAL_SECONDS

\* C28: the teardown of a typing session never removes or alters the
\* session-map entry or the stored message id of a newer session for the
\* same recipient: a step in which session t ends while the map refers to
\* another session that has not ended leaves both maps as they are.
C28_TeardownSparesNewer ==
    [][\A t \in Slots :
         (/\ Running(t)
          /\ tasks'[t].st = "done"
          /\ active_sessions[Room] \notin {t, NoTask}
          /\ Running(active_sessions[Room]))
         => /\ active_sessions'[Room] = active_sessions[Room]
            /\ message_ids'[Room] = message_ids[Room]]_vars

\* the ciphertext units transmitted so far
Encrypted == SelectSeq(outbox, LAMBDA m : m.enc)

\* C29: one encrypted send call never transmits the same body both as
\* ciphertext and as plaintext: once a ciphertext unit has been sent, no
\* unencrypted copy of the body is sent.
C29_NeverBothForms ==
    ~ \E i \in 1..Len(Encrypted), j \in 1..Len(Unencrypted) :
         Encrypted[i].body = Unencrypted[j].body

====
